---- MODULE Spec2Model ----
(***************************************************************************)
(* State-machine model of the BarcodeScanner class of src/app.js: the      *)
(* detection-confirmation window (handleDetection / confirmDetection), the *)
(* scan loop (startScanning / scanLoop / stopScanning), the scan history   *)
(* (processScan / addToHistory / displayProductInfo), manual entry and the *)
(* settings and history persistence through localStorage.                  *)
(*                                                                         *)
(* Strings that the code inspects character by character (scanned codes,   *)
(* the manual-entry input) are sequences of one-character strings.         *)
(* Date.now() is the variable now, in milliseconds; the two reads made by  *)
(* one synchronous handleDetection call are the same instant.              *)
(* An optional value (null or a value) is a sequence of length 0 or 1.     *)
(***************************************************************************)
EXTENDS Integers, Sequences, FiniteSets, TLC

\* ------------------------------------------------------------- bounds
\* Clock ticks the model lets pass.
MaxTicks == 2
\* startScanning calls that launch a scan loop.
MaxSessions == 2
\* processScan calls (confirmed detections and manual submissions).
MaxScans == 2
\* Frames counted by frameCount.
MaxFrames == 1

\* -------------------------------------------------- program constants
HistoryCapacity == 50
DefaultMinDetections == 2
DefaultDetectionTimeout == 2000
MinCodeDigits == 8
MaxCodeDigits == 14

\* One clock tick: half the default detection timeout.
TickMs == DefaultDetectionTimeout \div 2

\* ------------------------------------------------------------- inputs
CodeEAN8 == <<"9", "6", "3", "8", "5", "0", "7", "4">>
CodeQR == <<"q", "r">>

Digits == {"0", "1", "2", "3", "4", "5", "6", "7", "8", "9"}
Whitespace == {" ", "\t"}

\* What codeReader.decodeFromImageData settles with: no result (null or a
\* thrown NotFoundException), a result with an empty text, or a result.
DecodeOutcomes ==
    { [found |-> FALSE, text |-> <<>>, format |-> <<>>],
      [found |-> TRUE, text |-> <<>>, format |-> <<"QR_CODE">>],
      [found |-> TRUE, text |-> CodeEAN8, format |-> <<"EAN_8">>],
      [found |-> TRUE, text |-> CodeQR, format |-> <<"QR_CODE">>] }

\* Values typed into the manual-entry field, and of the format select.
ManualInputs ==
    { <<>>, <<" ", "\t">>, <<" ">> \o CodeQR \o <<" ">>, CodeEAN8 }
ManualFormats == {"QR Code"}

\* What searchOpenFoodFacts resolves with: a product, or null (status 0, an
\* HTTP error and a network error are all caught and give null).
LookupOutcomes ==
    { [found |-> TRUE, name |-> <<"Milk">>],
      [found |-> FALSE, name |-> <<>>] }

FormatKeys == {"UPC", "EAN", "Code128", "Code39", "QR", "DataMatrix"}
CheckboxIds ==
    {"audioFeedback", "autoSearch", "requireMultipleDetections"} \cup FormatKeys
\* The checkbox the scanner's specification toggles, and the history's.
ScanCheckboxIds == {"requireMultipleDetections"}
HistoryCheckboxIds == {"autoSearch"}

\* ----------------------------------------------------- pure functions

\* The input as typed, where trim() is left out.
Untrimmed(s) == s

\* String.prototype.trim
RECURSIVE TrimStart(_)
TrimStart(s) ==
    IF s # <<>> /\ Head(s) \in Whitespace THEN TrimStart(Tail(s)) ELSE s

RECURSIVE TrimEnd(_)
TrimEnd(s) ==
    IF s # <<>> /\ s[Len(s)] \in Whitespace
    THEN TrimEnd(SubSeq(s, 1, Len(s) - 1))
    ELSE s

Trim(s) == TrimEnd(TrimStart(s))

\* /^\d{8,14}$/.test(code)
IsValidUPCorEAN(code) ==
    /\ Len(code) >= MinCodeDigits
    /\ Len(code) <= MaxCodeDigits
    /\ \A i \in 1..Len(code) : code[i] \in Digits

\* new Date(ms).toISOString(): the instant as whole seconds and milliseconds.
ToISOString(ms) == [seconds |-> ms \div 1000, millis |-> ms % 1000]

\* JSON text of a boolean and of a non-negative integer (its decimal digits).
BoolText(b) == IF b THEN "true" ELSE "false"
\* The text taken for its truthiness: every non-empty text is true.
TextBoolTruthy(t) == t # ""

TextBool(t) == t = "true"

RECURSIVE NumText(_)
NumText(n) == IF n < 10 THEN <<n>> ELSE NumText(n \div 10) \o <<n % 10>>

RECURSIVE TextNum(_)
TextNum(d) ==
    IF Len(d) = 1 THEN d[1]
    ELSE 10 * TextNum(SubSeq(d, 1, Len(d) - 1)) + d[Len(d)]

DefaultSettings ==
    [ audioFeedback |-> TRUE,
      autoSearch |-> TRUE,
      requireMultipleDetections |-> TRUE,
      minDetections |-> DefaultMinDetections,
      detectionTimeout |-> DefaultDetectionTimeout,
      formats |-> [k \in FormatKeys |-> TRUE] ]

JSONStringifySettings(s) ==
    [ audioFeedback |-> BoolText(s.audioFeedback),
      autoSearch |-> BoolText(s.autoSearch),
      requireMultipleDetections |-> BoolText(s.requireMultipleDetections),
      minDetections |-> NumText(s.minDetections),
      detectionTimeout |-> NumText(s.detectionTimeout),
      formats |-> [k \in FormatKeys |-> BoolText(s.formats[k])] ]

JSONParseSettings(doc) ==
    [ audioFeedback |-> TextBool(doc.audioFeedback),
      autoSearch |-> TextBool(doc.autoSearch),
      requireMultipleDetections |-> TextBool(doc.requireMultipleDetections),
      minDetections |-> TextNum(doc.minDetections),
      detectionTimeout |-> TextNum(doc.detectionTimeout),
      formats |-> [k \in FormatKeys |-> TextBool(doc.formats[k])] ]

JSONStringifyHistory(h) ==
    [ i \in 1..Len(h) |->
        [ code |-> h[i].code,
          format |-> h[i].format,
          timestamp |-> h[i].timestamp,
          product |-> IF h[i].product = <<>>
                      THEN [isNull |-> TRUE, text |-> <<>>]
                      ELSE [isNull |-> FALSE, text |-> h[i].product[1]] ] ]

JSONParseHistory(doc) ==
    [ i \in 1..Len(doc) |->
        [ code |-> doc[i].code,
          format |-> doc[i].format,
          timestamp |-> doc[i].timestamp,
          product |-> IF doc[i].product.isNull
                      THEN <<>>
                      ELSE <<doc[i].product.text>> ] ]

\* A localStorage item: absent, a text JSON.parse throws on, or JSON text.
AbsentSettingsBlob ==
    [state |-> "absent", doc |-> JSONStringifySettings(DefaultSettings)]
CorruptSettingsBlob ==
    [state |-> "corrupt", doc |-> JSONStringifySettings(DefaultSettings)]
SettingsBlob(s) == [state |-> "json", doc |-> JSONStringifySettings(s)]
AbsentHistoryBlob == [state |-> "absent", doc |-> <<>>]
CorruptHistoryBlob == [state |-> "corrupt", doc |-> <<>>]
HistoryBlob(h) == [state |-> "json", doc |-> JSONStringifyHistory(h)]

\* loadSettings(): the parsed settings, or null.
LoadSettings(blob) ==
    IF blob.state = "json" THEN <<JSONParseSettings(blob.doc)>> ELSE <<>>

\* loadHistory(): the parsed history, or null.
LoadHistory(blob) ==
    IF blob.state = "json" THEN <<JSONParseHistory(blob.doc)>> ELSE <<>>

\* this.settings = this.loadSettings() || { ...defaults }
ConstructSettings(blob) ==
    IF LoadSettings(blob) = <<>> THEN DefaultSettings ELSE LoadSettings(blob)[1]

\* this.scanHistory = this.loadHistory() || []
ConstructHistory(blob) ==
    IF LoadHistory(blob) = <<>> THEN <<>> ELSE LoadHistory(blob)[1]

\* A history written by n earlier scans, the oldest last.
EarlierHistory(n) ==
    [ i \in 1..n |->
        [ code |-> CodeEAN8,
          format |-> "EAN_8",
          timestamp |-> ToISOString(0 - i * TickMs),
          product |-> <<>> ] ]


\* ---------------------------------------- detection confirmation engine

\* The filter with >= for >: it keeps an entry exactly detectionTimeout old.
PruneDetectionsInclusive(window, t, timeout) ==
    SelectSeq(window, LAMBDA d : d.timestamp >= t - timeout)

\* this.detectionHistory.filter(d => d.timestamp > cutoff),
\* cutoff = Date.now() - this.settings.detectionTimeout
PruneDetections(window, t, timeout) ==
    SelectSeq(window, LAMBDA d : d.timestamp > t - timeout)

\* A count of the trailing run only: the entries of the code at the end of
\* the window, up to the first entry of another code.
RECURSIVE CodeMatchesTrailing(_, _)
CodeMatchesTrailing(window, code) ==
    IF window = <<>> \/ window[Len(window)].code # code
    THEN <<>>
    ELSE Append(CodeMatchesTrailing(SubSeq(window, 1, Len(window) - 1), code),
                window[Len(window)])

\* this.detectionHistory.filter(d => d.code === code)
CodeMatches(window, code) == SelectSeq(window, LAMBDA d : d.code = code)

\* The branch with > for >=: minDetections matches are not yet enough.
ShouldConfirmStrict(s, matches) ==
    IF s.requireMultipleDetections THEN matches > s.minDetections ELSE TRUE

\* The branch without its else: the count decides whatever the flag is.
ShouldConfirmCounting(s, matches) == matches >= s.minDetections

\* The branch of handleDetection that calls confirmDetection.
ShouldConfirm(s, matches) ==
    IF s.requireMultipleDetections THEN matches >= s.minDetections ELSE TRUE

\* result.getBarcodeFormat ? result.getBarcodeFormat().toString() : 'Unknown'
FormatOf(result) ==
    IF result.format # <<>> THEN result.format[1] ELSE "Unknown"

\* stopScanning() that returns without clearing the flag.
StopFlagSkipped(scanning) == scanning

\* stopScanning() that flips the flag instead of clearing it.
StopFlagToggled(scanning) == ~scanning

\* The scanning flag after stopScanning(): untouched when it is not set
\* (the early return), cleared otherwise.
StopFlag(scanning) == IF ~scanning THEN scanning ELSE FALSE

\* ------------------------------------------------------------- history

\* unshift without the slice: the history grows past its capacity.
AddToHistoryUncapped(h, scanData) == <<scanData>> \o h

\* unshift, then slice(0, 50) when longer than 50
AddToHistory(h, scanData) ==
    LET u == <<scanData>> \o h
    IN  IF Len(u) > HistoryCapacity THEN SubSeq(u, 1, HistoryCapacity) ELSE u

\* if (this.scanHistory.length > 0) this.scanHistory[0].product = name
UpdateHeadProduct(h, name) ==
    IF Len(h) > 0 THEN [h EXCEPT ![1].product = <<name>>] ELSE h

CreateFallbackResult(code) ==
    [ name |-> <<"Product Code: ">> \o code,
      source |-> "Search Links",
      searchLinks |-> <<"Google Search", "Amazon Search", "UPC Database">> ]

\* The object searchOpenFoodFacts returns for a product that was found.
FoundProduct(name) ==
    [name |-> name, source |-> "Open Food Facts", searchLinks |-> <<>>]

\* What #productInfo shows: nothing yet, the spinner of showResults, or the
\* card of displayProductInfo with its links.
NoCard == [kind |-> "none", name |-> <<>>, links |-> <<>>]
LoadingCard == [kind |-> "loading", name |-> <<>>, links |-> <<>>]
ProductCard(productData) ==
    [ kind |-> "card",
      name |-> productData.name,
      links |-> <<"View Original">> \o
                (IF productData.searchLinks # <<>>
                 THEN productData.searchLinks
                 ELSE <<"Search Google">>) ]

\* --------------------------------------------------------------- state
VARIABLES
    now,               \* Date.now()
    settings,          \* this.settings
    storage,           \* localStorage: scannerSettings, scanHistory
    storageWorks,      \* localStorage.setItem stores (TRUE) or throws (FALSE)
    isScanning,        \* this.isScanning
    stream,            \* this.stream: none, or its tracks, camera and torch
    srcObject,         \* video.srcObject is set
    codeReader,        \* this.codeReader is set
    detectionHistory,  \* this.detectionHistory
    lastDetectedCode,  \* this.lastDetectedCode
    detectionCount,    \* this.detectionCount
    scanStartTime,     \* this.scanStartTime
    frameCount,        \* this.frameCount
    scanHistory,       \* this.scanHistory
    productInfo,       \* the card shown in #productInfo
    lookups,           \* fetches of searchOpenFoodFacts not yet settled
    loopPc,            \* where each launched scanLoop chain stands
    session,           \* scan loops launched so far
    scans,             \* processScan calls so far
    cancelled,         \* loops that were active when stopScanning ran
    scanTimeout,       \* this.scanTimeout of the simulated decoder, 0: unset
    currentCamera,     \* this.currentCamera
    flashEnabled,      \* this.flashEnabled
    cameraAvailable,   \* this.cameraAvailable
    scanAgainPending,  \* timers of scanAgain not yet run
    manualModal,       \* the manual-entry dialog is shown
    resultsShown,      \* the results panel is shown
    errorState,        \* the error panel: "hidden", or the message shown
    ev                 \* the last operation and what it saw

vars ==
    << now, settings, storage, storageWorks, isScanning, stream, srcObject,
       codeReader, detectionHistory, lastDetectedCode, detectionCount,
       scanStartTime, frameCount, scanHistory, productInfo, lookups, loopPc,
       session, scans, cancelled, scanTimeout, currentCamera, flashEnabled,
       cameraAvailable, scanAgainPending, manualModal, resultsShown,
       errorState, ev >>

deviceVars ==
    << scanTimeout, currentCamera, flashEnabled, cameraAvailable,
       scanAgainPending >>

panelVars == << manualModal, resultsShown, errorState >>

\* this.stream = null.  A stream is its one video track: its readyState,
\* its facing mode, whether getCapabilities() reports a torch, the torch
\* itself and the last torch constraint handed to applyConstraints.
NullStream ==
    [state |-> "null", facing |-> "none", torchCapable |-> FALSE,
     torch |-> FALSE, requested |-> <<>>]

\* The stream getUserMedia resolves with for a facing mode, on a camera
\* with or without a torch.
NewStream(facing, capable) ==
    [state |-> "live", facing |-> facing, torchCapable |-> capable,
     torch |-> FALSE, requested |-> <<>>]

\* this.stream after requestCameraPermission(): the stream getUserMedia
\* resolved with, or the one there was when it rejected.
AfterPermission(s, outcome, facing, capable) ==
    IF outcome = "denied" THEN s ELSE NewStream(facing, capable)

\* switchCamera() without its forEach: the tracks keep running.
TracksLeftRunning(s) == s

\* this.stream.getTracks().forEach(track => track.stop())
StopTracks(s) == [s EXCEPT !.state = "ended", !.torch = FALSE]

\* this.currentCamera === 'environment' ? 'user' : 'environment'
OtherCamera(facing) == IF facing = "environment" THEN "user" ELSE "environment"

\* toggleFlash() without its negation: the flag keeps its value.
FlashKept(flag) == flag

\* this.flashEnabled = !this.flashEnabled
FlipFlash(flag) == ~flag

\* track.applyConstraints({advanced: [{torch: value}]}): the constraint is
\* handed to the track, and the torch follows when the device accepts it.
ApplyTorch(s, value, accepts) ==
    [s EXCEPT !.requested = <<value>>,
              !.torch = IF accepts /\ s.state = "live" THEN value ELSE @]

Sessions == 1..MaxSessions

ActiveLoops == {g \in Sessions : loopPc[g] # "none"}

\* The record of an operation: which one, the loop or lookup it belongs to,
\* the text typed into the manual-entry field, its code and format, the matches handleDetection counted, whether it
\* confirmed, what the lookup found, and the state it started from (the
\* scanning flag, the detection window, the history, the stored history, the
\* pending lookups, whether the loop had been stopped, the scanner's fields).
Ev(op) ==
    [ op |-> op, gen |-> 0, input |-> <<>>, code |-> <<>>, format |-> "",
      matches |-> 0,
      confirmed |-> FALSE, found |-> FALSE, scanning |-> FALSE,
      window |-> <<>>, history |-> <<>>, stored |-> AbsentHistoryBlob,
      lookups |-> {}, stopped |-> FALSE, before |-> <<>>, old |-> <<>> ]

\* The scanner's fields, as startScanning and stopScanning find them.
ScannerState ==
    [ isScanning |-> isScanning, detectionHistory |-> detectionHistory,
      detectionCount |-> detectionCount, scanStartTime |-> scanStartTime,
      frameCount |-> frameCount, loopPc |-> loopPc, session |-> session,
      scanHistory |-> scanHistory, storage |-> storage, stream |-> stream,
      srcObject |-> srcObject, lookups |-> lookups,
      lastDetectedCode |-> lastDetectedCode, currentCamera |-> currentCamera,
      flashEnabled |-> flashEnabled, cameraAvailable |-> cameraAvailable,
      manualModal |-> manualModal, resultsShown |-> resultsShown,
      errorState |-> errorState ]

\* The record of an operation on the history, with the state it started from.
EvFrom(op) ==
    [ Ev(op) EXCEPT !.scanning = isScanning, !.history = scanHistory,
                    !.stored = storage.scanHistory, !.lookups = lookups ]

\* saveHistory() that never calls setItem.
SaveHistorySkipped(st, h) == st

\* saveHistory(): setItem either stores the text or throws (and is caught).
SaveHistory(st, h) ==
    IF storageWorks THEN [st EXCEPT !.scanHistory = HistoryBlob(h)] ELSE st

\* saveSettings()
SaveSettings(st, s) ==
    IF storageWorks THEN [st EXCEPT !.scannerSettings = SettingsBlob(s)] ELSE st

\* The constructor, on what localStorage holds.
Construct(st) ==
    /\ now = 0
    /\ storage = st
    /\ storageWorks = TRUE
    /\ settings = ConstructSettings(st.scannerSettings)
    /\ scanHistory = ConstructHistory(st.scanHistory)
    /\ isScanning = FALSE
    /\ stream = NullStream
    /\ srcObject = FALSE
    /\ codeReader = FALSE
    /\ detectionHistory = <<>>
    /\ lastDetectedCode = <<>>
    /\ detectionCount = 0
    /\ scanStartTime = 0
    /\ frameCount = 0
    /\ productInfo = NoCard
    /\ lookups = {}
    /\ loopPc = [g \in Sessions |-> "none"]
    /\ session = 0
    /\ scans = 0
    /\ cancelled = {}
    /\ scanTimeout = 0
    /\ currentCamera = "environment"
    /\ flashEnabled = FALSE
    /\ cameraAvailable = FALSE
    /\ scanAgainPending = 0
    /\ manualModal = FALSE
    /\ resultsShown = FALSE
    /\ errorState = "hidden"
    /\ ev = Ev("constructor")

\* The settings an earlier run stored: single detections, minDetections 3.
StoredSettings ==
    [DefaultSettings EXCEPT !.requireMultipleDetections = FALSE,
                            !.minDetections = DefaultMinDetections + 1]

\* A first visit (localStorage holds nothing), or a visit after that run.
Init ==
    \E blob \in {AbsentSettingsBlob, SettingsBlob(StoredSettings)} :
        Construct([scannerSettings |-> blob, scanHistory |-> AbsentHistoryBlob])

\* -------------------------------------------------------------- actions

\* displayProductInfo(productData, code) with productData not null: shows
\* the card, then writes productData.name into the head of the history.
DisplayProductInfo(productData) ==
    /\ productInfo' = ProductCard(productData)
    /\ scanHistory' = UpdateHeadProduct(scanHistory, productData.name)
    /\ storage' = IF Len(scanHistory) > 0
                  THEN SaveHistory(storage, scanHistory')
                  ELSE storage

\* processScan(code, format): addToHistory, showResults and, with autoSearch,
\* searchProduct up to its first await.  For a code that is not 8 to 14
\* digits searchProduct awaits nothing: it builds the fallback result and
\* runs displayProductInfo before processScan returns.  scanning is the
\* scanning flag at the time of the call.
ProcessScan(code, format, scanning) ==
    LET scanData == [ code |-> code, format |-> format,
                      timestamp |-> ToISOString(now), product |-> <<>> ]
        added == AddToHistory(scanHistory, scanData)
        fallback == CreateFallbackResult(code)
    IN  /\ scans' = scans + 1
        /\ IF settings.autoSearch /\ ~IsValidUPCorEAN(code)
           THEN /\ scanHistory' = UpdateHeadProduct(added, fallback.name)
                /\ productInfo' = ProductCard(fallback)
                /\ lookups' = lookups
           ELSE /\ scanHistory' = added
                /\ productInfo' = LoadingCard
                /\ lookups' = IF settings.autoSearch
                              THEN lookups \cup
                                   {[id |-> scans + 1, code |-> code,
                                     scanning |-> scanning]}
                              ELSE lookups
        /\ storage' = SaveHistory(storage, scanHistory')
        /\ resultsShown' = TRUE

\* The detection window after handleDetection's push and filter.
WindowAfter(code, format) ==
    PruneDetections(
        Append(detectionHistory,
               [code |-> code, format |-> format, timestamp |-> now]),
        now, settings.detectionTimeout)

\* handleDetection(result), called by the scan loop g; confirmDetection stops
\* the scanner and calls processScan.
HandleDetection(g, result) ==
    LET code == result.text
        format == FormatOf(result)
        window == WindowAfter(code, format)
        matches == Len(CodeMatches(window, code))
        confirm == ShouldConfirm(settings, matches)
    IN  /\ lastDetectedCode' = <<code>>
        /\ detectionHistory' = window
        /\ ev' = [EvFrom("handleDetection") EXCEPT
                    !.gen = g, !.code = code, !.format = format,
                    !.matches = matches, !.confirmed = confirm,
                    !.window = detectionHistory, !.stopped = g \in cancelled]
        /\ IF confirm
           THEN /\ scans < MaxScans
                /\ isScanning' = StopFlag(isScanning)
                /\ cancelled' = (IF isScanning
                                 THEN cancelled \cup ActiveLoops
                                 ELSE cancelled) \ {g}
                /\ ProcessScan(code, format, StopFlag(isScanning))
           ELSE /\ cancelled' = cancelled \ {g}
                /\ UNCHANGED << isScanning, scanHistory, storage, productInfo,
                                lookups, scans, resultsShown >>

Tick ==
    /\ now + TickMs <= MaxTicks * TickMs
    /\ now' = now + TickMs
    /\ ev' = Ev("other")
    /\ UNCHANGED << deviceVars, panelVars >>
    /\ UNCHANGED << settings, storage, storageWorks, isScanning, stream,
                    srcObject, codeReader, detectionHistory, lastDetectedCode,
                    detectionCount, scanStartTime, frameCount, scanHistory,
                    productInfo, lookups, loopPc, session, scans, cancelled >>

\* localStorage stops accepting writes (the quota is reached, or storage is
\* disabled): every later setItem throws.
StorageBreaks ==
    /\ storageWorks
    /\ storageWorks' = FALSE
    /\ ev' = Ev("other")
    /\ UNCHANGED << deviceVars, panelVars >>
    /\ UNCHANGED << now, settings, storage, isScanning, stream, srcObject,
                    codeReader, detectionHistory, lastDetectedCode,
                    detectionCount, scanStartTime, frameCount, scanHistory,
                    productInfo, lookups, loopPc, session, scans, cancelled >>

\* initializeZXing(): the library loaded and the reader was constructed.
InitializeZXing ==
    /\ ~codeReader
    /\ codeReader' = TRUE
    /\ ev' = Ev("other")
    /\ UNCHANGED << deviceVars, panelVars >>
    /\ UNCHANGED << now, settings, storage, storageWorks, isScanning, stream,
                    srcObject, detectionHistory, lastDetectedCode,
                    detectionCount, scanStartTime, frameCount, scanHistory,
                    productInfo, lookups, loopPc, session, scans, cancelled >>

\* requestCameraPermission() without its catch: no error is shown.
ErrorNeverShown(outcome) == "hidden"

\* The errorState element after requestCameraPermission(): hidden at its
\* start, shown with the message by showError() in its catch.
AfterAttempt(outcome) ==
    IF outcome = "ok" THEN "hidden" ELSE "Camera access failed"

\* requestCameraPermission(): getUserMedia rejects ("denied"), or resolves
\* and the video loads ("ok") or does not load within 5 s ("timeout").
RequestCameraPermission(outcome, capable) ==
    /\ stream' = AfterPermission(stream, outcome, currentCamera, capable)
    /\ srcObject' = (srcObject \/ outcome # "denied")
    /\ errorState' = AfterAttempt(outcome)
    /\ ev' = [Ev("requestCameraPermission") EXCEPT
                !.before = <<ScannerState>>, !.format = outcome]
    /\ UNCHANGED << scanTimeout, currentCamera, flashEnabled, cameraAvailable,
                    scanAgainPending, manualModal, resultsShown >>
    /\ UNCHANGED << now, settings, storage, storageWorks, isScanning,
                    codeReader, detectionHistory, lastDetectedCode,
                    detectionCount, scanStartTime, frameCount, scanHistory,
                    productInfo, lookups, loopPc, session, scans, cancelled >>

\* startScanning() without its first line: it never returns early.
StartNeverReturnsEarly(scanning) == FALSE

\* if (this.isScanning) return;
StartReturnsEarly(scanning) == scanning

\* startScanning(): returns at once when scanning; otherwise sets the flag,
\* resets the window and the counters, and either throws for want of a video
\* stream (caught: stopScanning) or runs scanLoop up to its first await or
\* its requestAnimationFrame.
StartScanningSteps ==
    /\ IF StartReturnsEarly(isScanning)
       THEN UNCHANGED << isScanning, detectionHistory, detectionCount,
                         scanStartTime, frameCount, loopPc, session,
                         cancelled, errorState >>
       ELSE /\ detectionHistory' = <<>>
            /\ detectionCount' = 0
            /\ scanStartTime' = now
            /\ IF ~srcObject
               THEN /\ isScanning' = StopFlag(TRUE)
                    /\ frameCount' = 0
                    /\ cancelled' = cancelled \cup ActiveLoops
                    /\ errorState' = "Failed to start scanning"
                    /\ UNCHANGED << loopPc, session >>
               ELSE /\ session < MaxSessions
                    /\ UNCHANGED errorState
                    /\ session' = session + 1
                    /\ isScanning' = TRUE
                    /\ cancelled' = cancelled
                    /\ IF codeReader
                       THEN /\ frameCount' = 0
                            /\ loopPc' = [loopPc EXCEPT
                                            ![session + 1] = "decoding"]
                       ELSE /\ frameCount' = 1
                            /\ loopPc' = [loopPc EXCEPT
                                            ![session + 1] = "scheduled"]
    /\ UNCHANGED << now, settings, storage, storageWorks, stream, srcObject,
                    codeReader, lastDetectedCode, scanHistory, productInfo,
                    lookups, scans >>

\* startScanning(), called by the start button.
StartScanning ==
    /\ ev' = [Ev("startScanning") EXCEPT !.scanning = isScanning,
                                         !.before = <<ScannerState>>]
    /\ StartScanningSteps
    /\ UNCHANGED << deviceVars, manualModal, resultsShown >>

\* stopScanning()
StopScanning ==
    /\ ev' = [Ev("stopScanning") EXCEPT !.scanning = isScanning,
                                        !.before = <<ScannerState>>]
    /\ isScanning' = StopFlag(isScanning)
    /\ cancelled' = IF isScanning THEN cancelled \cup ActiveLoops ELSE cancelled
    /\ UNCHANGED << deviceVars, panelVars >>
    /\ UNCHANGED << now, settings, storage, storageWorks, stream, srcObject,
                    codeReader, detectionHistory, lastDetectedCode,
                    detectionCount, scanStartTime, frameCount, scanHistory,
                    productInfo, lookups, loopPc, session, scans >>

\* The requestAnimationFrame callback of loop g: scanLoop() from its top to
\* its return, its await or its next requestAnimationFrame.
FrameCallback(g) ==
    /\ loopPc[g] = "scheduled"
    /\ ev' = [Ev("scanLoop") EXCEPT !.gen = g, !.scanning = isScanning,
                                    !.stopped = g \in cancelled]
    /\ IF ~isScanning
       THEN /\ loopPc' = [loopPc EXCEPT ![g] = "none"]
            /\ cancelled' = cancelled \ {g}
            /\ UNCHANGED frameCount
       ELSE IF codeReader
            THEN /\ loopPc' = [loopPc EXCEPT ![g] = "decoding"]
                 /\ UNCHANGED << frameCount, cancelled >>
            ELSE /\ frameCount < MaxFrames
                 /\ frameCount' = frameCount + 1
                 /\ UNCHANGED << loopPc, cancelled >>
    /\ UNCHANGED << deviceVars, panelVars >>
    /\ UNCHANGED << now, settings, storage, storageWorks, isScanning, stream,
                    srcObject, codeReader, detectionHistory, lastDetectedCode,
                    detectionCount, scanStartTime, scanHistory, productInfo,
                    lookups, session, scans >>

\* scanLoop of loop g resumes after await decodeFromImageData: a result with
\* a text goes to handleDetection and the loop returns; otherwise the frame
\* is counted and the loop reschedules itself if the flag is set.
DecodeComplete(g, outcome) ==
    /\ loopPc[g] = "decoding"
    /\ IF outcome.found /\ outcome.text # <<>>
       THEN /\ HandleDetection(g, outcome)
            /\ loopPc' = [loopPc EXCEPT ![g] = "none"]
            /\ UNCHANGED frameCount
       ELSE /\ frameCount < MaxFrames
            /\ frameCount' = frameCount + 1
            /\ loopPc' = [loopPc EXCEPT
                            ![g] = IF isScanning THEN "scheduled" ELSE "none"]
            /\ cancelled' = IF isScanning THEN cancelled ELSE cancelled \ {g}
            /\ ev' = [Ev("scanLoop") EXCEPT !.gen = g, !.scanning = isScanning,
                                            !.stopped = g \in cancelled]
            /\ UNCHANGED << isScanning, detectionHistory, lastDetectedCode,
                            scanHistory, storage, productInfo, lookups, scans,
                            resultsShown >>
    /\ UNCHANGED << deviceVars, manualModal, errorState >>
    /\ UNCHANGED << now, settings, storageWorks, stream, srcObject, codeReader,
                    detectionCount, scanStartTime, session >>

\* submitManualCode(): the input is trimmed; a blank code is rejected with an
\* alert, any other goes to processScan.
SubmitManualCode(input, format) ==
    LET code == Trim(input)
    IN  /\ ev' = [EvFrom("submitManualCode") EXCEPT
                    !.input = input, !.code = code, !.format = format]
        /\ IF code = <<>>
           THEN UNCHANGED << scanHistory, storage, productInfo, lookups, scans,
                             panelVars >>
           ELSE /\ scans < MaxScans
                /\ manualModal' = FALSE
                /\ UNCHANGED errorState
                /\ ProcessScan(code, format, isScanning)
        /\ UNCHANGED deviceVars
        /\ UNCHANGED << now, settings, storageWorks, isScanning, stream,
                        srcObject, codeReader, detectionHistory,
                        lastDetectedCode, detectionCount, scanStartTime,
                        frameCount, loopPc, session, cancelled >>

\* searchProduct resumes after await searchOpenFoodFacts(code): a null
\* result is replaced by the fallback result, then displayProductInfo.
LookupComplete(l, outcome) ==
    /\ l \in lookups
    /\ lookups' = lookups \ {l}
    /\ DisplayProductInfo(
           IF outcome.found THEN FoundProduct(outcome.name)
                            ELSE CreateFallbackResult(l.code))
    /\ ev' = [EvFrom("searchProduct") EXCEPT
                !.gen = l.id, !.code = l.code, !.found = outcome.found]
    /\ UNCHANGED << deviceVars, panelVars >>
    /\ UNCHANGED << now, settings, storageWorks, isScanning, stream, srcObject,
                    codeReader, detectionHistory, lastDetectedCode,
                    detectionCount, scanStartTime, frameCount, loopPc, session,
                    scans, cancelled >>

\* clearHistory(), the confirm dialog answered with OK.
ClearHistory ==
    /\ scanHistory' = <<>>
    /\ storage' = SaveHistory(storage, <<>>)
    /\ ev' = EvFrom("clearHistory")
    /\ UNCHANGED << deviceVars, panelVars >>
    /\ UNCHANGED << now, settings, storageWorks, isScanning, stream, srcObject,
                    codeReader, detectionHistory, lastDetectedCode,
                    detectionCount, scanStartTime, frameCount, productInfo,
                    lookups, loopPc, session, scans, cancelled >>

\* The checkboxes show the settings (loadSettingsUI); the user flips the
\* checkbox id and its change event runs updateSettings(), which reads every
\* checkbox, sets minDetections and detectionTimeout anew, and saves.
Checked(s, id) ==
    IF id \in FormatKeys THEN s.formats[id] ELSE s[id]

UpdateSettings(id) ==
    LET box(k) == IF k = id THEN ~Checked(settings, k) ELSE Checked(settings, k)
    IN  /\ settings' =
              [ audioFeedback |-> box("audioFeedback"),
                autoSearch |-> box("autoSearch"),
                requireMultipleDetections |-> box("requireMultipleDetections"),
                minDetections |-> DefaultMinDetections,
                detectionTimeout |-> DefaultDetectionTimeout,
                formats |-> [k \in FormatKeys |-> box(k)] ]
        /\ storage' = SaveSettings(storage, settings')
        /\ ev' = Ev("updateSettings")
        /\ UNCHANGED << deviceVars, panelVars >>
        /\ UNCHANGED << now, storageWorks, isScanning, stream, srcObject,
                        codeReader, detectionHistory, lastDetectedCode,
                        detectionCount, scanStartTime, frameCount, scanHistory,
                        productInfo, lookups, loopPc, session, scans,
                        cancelled >>

\* The page is loaded again: the constructor runs on what localStorage holds.
Reload ==
    /\ settings' = ConstructSettings(storage.scannerSettings)
    /\ scanHistory' = ConstructHistory(storage.scanHistory)
    /\ storageWorks' = TRUE
    /\ isScanning' = FALSE
    /\ stream' = NullStream
    /\ srcObject' = FALSE
    /\ codeReader' = FALSE
    /\ detectionHistory' = <<>>
    /\ lastDetectedCode' = <<>>
    /\ detectionCount' = 0
    /\ scanStartTime' = 0
    /\ frameCount' = 0
    /\ productInfo' = NoCard
    /\ lookups' = {}
    /\ loopPc' = [g \in Sessions |-> "none"]
    /\ cancelled' = {}
    /\ scanTimeout' = 0
    /\ currentCamera' = "environment"
    /\ flashEnabled' = FALSE
    /\ cameraAvailable' = FALSE
    /\ scanAgainPending' = 0
    /\ manualModal' = FALSE
    /\ resultsShown' = FALSE
    /\ errorState' = "hidden"
    /\ ev' = Ev("constructor")
    /\ UNCHANGED << now, storage, session, scans >>

\* The scanner: camera, scan loops, detections and the setting they read.
Next ==
    \/ Tick
    \/ InitializeZXing
    \/ \E outcome \in {"ok", "denied", "timeout"} :
           RequestCameraPermission(outcome, FALSE)
    \/ StartScanning
    \/ StopScanning
    \/ \E g \in Sessions : FrameCallback(g)
    \/ \E g \in Sessions, outcome \in DecodeOutcomes :
           DecodeComplete(g, outcome)
    \/ \E id \in ScanCheckboxIds : UpdateSettings(id)

Spec == Init /\ [][Next]_vars

\* ------------------------------------------------- the confirmation engine
\* What the last handleDetection call left, read from the state after it.

\* The entries of the window that carry the code of the last detection.
WindowMatches ==
    Cardinality({i \in DOMAIN detectionHistory :
                    detectionHistory[i].code = ev.code})

\* The call appended one record for its code and format at the head of the
\* history and stopped the scanner.
ConfirmedByCall ==
    /\ Len(scanHistory) = Len(ev.history) + 1
    /\ scanHistory[1].code = ev.code
    /\ scanHistory[1].format = ev.format
    /\ Tail(scanHistory) = ev.history
    /\ ~isScanning

\* The call appended nothing and left the scanning flag as it was.
NothingConfirmedByCall ==
    /\ scanHistory = ev.history
    /\ isScanning = ev.scanning

\* C1: with requireMultipleDetections on and minDetections 2, a detection
\* that is the only one of its code in the window of its session confirms
\* nothing (no record is appended, the scanning flag stays), and a detection
\* that finds an earlier one of its code less than detectionTimeout old
\* appends exactly one record for the code.
C1_SecondDetectionConfirms ==
    ( /\ ev.op = "handleDetection"
      /\ settings.requireMultipleDetections
      /\ settings.minDetections = DefaultMinDetections )
    => /\ WindowMatches = 1 => NothingConfirmedByCall
       /\ WindowMatches >= 2 => ConfirmedByCall

\* A second detection of a code, one tick after the first, has confirmed it.
C1_Witness ==
    /\ ev.op = "handleDetection"
    /\ settings.requireMultipleDetections
    /\ settings.minDetections = DefaultMinDetections
    /\ WindowMatches = 2
    /\ \E i \in DOMAIN detectionHistory :
           /\ detectionHistory[i].code = ev.code
           /\ detectionHistory[i].timestamp < now
    /\ ConfirmedByCall

\* C2: whenever handleDetection confirms a code, the detection window is
\* empty immediately after the confirmation.
C2_WindowEmptyAfterConfirm ==
    (ev.op = "handleDetection" /\ ev.confirmed) => detectionHistory = <<>>

\* C3: with requireMultipleDetections off, every detection handed to
\* handleDetection is confirmed by that call, whatever the window held and
\* whatever minDetections is.
C3_SingleDetectionConfirms ==
    (ev.op = "handleDetection" /\ ~settings.requireMultipleDetections)
    => ConfirmedByCall

\* A detection was confirmed at once although the window held fewer entries
\* of its code than minDetections, here with minDetections 3 as stored.
C3_Witness ==
    /\ ev.op = "handleDetection"
    /\ ~settings.requireMultipleDetections
    /\ settings.minDetections > DefaultMinDetections
    /\ WindowMatches < settings.minDetections
    /\ ConfirmedByCall

\* C4: after every handleDetection call every entry kept in the window is
\* less than detectionTimeout old, and the matches were counted on the
\* pruned window: with requireMultipleDetections on, the call confirmed
\* exactly when the pruned window holds minDetections entries of the code.
C4_WindowPruned ==
    ev.op = "handleDetection"
    => /\ \A i \in DOMAIN detectionHistory :
              now - detectionHistory[i].timestamp < settings.detectionTimeout
       /\ ev.matches = WindowMatches
       /\ settings.requireMultipleDetections
          => (Len(scanHistory) > Len(ev.history)
              <=> WindowMatches >= settings.minDetections)

\* A call dropped an entry of its own code that was exactly detectionTimeout
\* old, and so counted one match and confirmed nothing.
C4_Witness ==
    /\ ev.op = "handleDetection"
    /\ settings.requireMultipleDetections
    /\ \E i \in DOMAIN ev.window :
           /\ ev.window[i].code = ev.code
           /\ now - ev.window[i].timestamp = settings.detectionTimeout
    /\ WindowMatches = 1
    /\ NothingConfirmedByCall

\* C9: after stopScanning was called while a scan loop was active, a step of
\* that loop starts no decode and schedules no further iteration: it ends the
\* loop.
C9_StoppedLoopEnds ==
    (ev.op = "scanLoop" /\ ev.stopped) => loopPc[ev.gen] = "none"

\* C12: at every moment at most one scan loop is active (awaiting its decode
\* or its next frame callback), whatever the interleaving of startScanning,
\* stopScanning, frame callbacks and decode completions.
C12_AtMostOneLoop == Cardinality(ActiveLoops) <= 1

\* The lookups issued by the last operation.
LookupsIssued == lookups \ ev.lookups

\* C13: on a confirmed detection the scanning flag is already false when the
\* lookup is issued, and the confirmed scan issues at most one lookup, for
\* its own code.
C13_StopPrecedesLookup ==
    (ev.op = "handleDetection" /\ ev.confirmed)
    => /\ ~isScanning
       /\ Cardinality(LookupsIssued) <= 1
       /\ \A l \in LookupsIssued : ~l.scanning /\ l.code = ev.code

\* A detection confirmed while scanning issued its one lookup with the
\* scanning flag already cleared.
C13_Witness ==
    /\ ev.op = "handleDetection"
    /\ ev.confirmed
    /\ ev.scanning
    /\ Cardinality(LookupsIssued) = 1
    /\ \A l \in LookupsIssued : ~l.scanning /\ l.code = ev.code
    /\ ~isScanning

\* The loops launched by the last operation.
LoopsLaunched ==
    {g \in Sessions : ev.before[1].loopPc[g] = "none" /\ loopPc[g] # "none"}

\* What startScanning does whatever the decoder: nothing when already
\* scanning; otherwise, with a video stream, the flag is set, the window is
\* empty, the detection counter is 0, the start time is now and exactly one
\* loop was launched, the earlier loops being left as they were.
StartEffect ==
    IF ev.before[1].isScanning
    THEN ScannerState = ev.before[1]
    ELSE ev.before[1].srcObject
         => /\ isScanning
            /\ detectionHistory = <<>>
            /\ detectionCount = 0
            /\ scanStartTime = now
            /\ Cardinality(LoopsLaunched) = 1
            /\ session = ev.before[1].session + 1
            /\ \A g \in Sessions \ LoopsLaunched :
                   loopPc[g] = ev.before[1].loopPc[g]

\* C14, as the code has it: startScanning while scanning changes nothing;
\* while not scanning, with a video stream, it sets the flag, empties the
\* window, zeroes the counters, sets the start time and launches one loop,
\* and the frame counter is 0 when the loop awaits its first decode but 1
\* when no decoder is loaded, the loop's first iteration having run, and
\* counted its frame, before startScanning returns.
C14_StartScanningEffect ==
    ev.op = "startScanning"
    => /\ StartEffect
       /\ (~ev.before[1].isScanning /\ ev.before[1].srcObject)
          => frameCount = (IF codeReader THEN 0 ELSE 1)

\* C14, as the claim has it: after startScanning from not scanning, with a
\* video stream, the frame counter is 0.
C14_FrameCounterZero ==
    ev.op = "startScanning"
    => /\ StartEffect
       /\ (~ev.before[1].isScanning /\ ev.before[1].srcObject)
          => frameCount = 0

\* startScanning was called while scanning, with a window that was not
\* empty, and changed nothing.
C14_WitnessNoOp ==
    /\ ev.op = "startScanning"
    /\ ev.before[1].isScanning
    /\ detectionHistory # <<>>
    /\ ScannerState = ev.before[1]

\* startScanning was called while stopped, with a window that was not empty
\* and a decoder loaded, and launched a second session.
C14_Witness ==
    /\ ev.op = "startScanning"
    /\ ~ev.before[1].isScanning
    /\ ev.before[1].srcObject
    /\ ev.before[1].detectionHistory # <<>>
    /\ scanStartTime > 0
    /\ isScanning
    /\ detectionHistory = <<>>
    /\ frameCount = 0
    /\ Cardinality(LoopsLaunched) = 1

\* C15: stopScanning is idempotent: it always leaves the scanning flag
\* false, and called when the flag is false (so also right after another
\* stopScanning) it changes nothing: not the flag, the window, the counters,
\* the loops, the history and its stored text, or the stream.
C15_StopIdempotent ==
    ev.op = "stopScanning"
    => /\ ~isScanning
       /\ ~ev.before[1].isScanning => ScannerState = ev.before[1]
       /\ ev.before[1].isScanning
          => ScannerState = [ev.before[1] EXCEPT !.isScanning = FALSE]

\* stopScanning was called while stopped, with detections in the window and
\* a loop still pending, and changed nothing.
C15_Witness ==
    /\ ev.op = "stopScanning"
    /\ ~ev.before[1].isScanning
    /\ srcObject
    /\ detectionHistory # <<>>
    /\ ActiveLoops # {}
    /\ ScannerState = ev.before[1]

\* C27: while the scanning flag is false (stopScanning has returned and
\* startScanning was not called since) no detection is handled: a decode that
\* was in flight and resolves with a code adds nothing to the detection
\* window, confirms nothing and appends no record.
C27_NoDetectionWhileStopped ==
    (ev.op = "handleDetection" /\ ~ev.scanning)
    => /\ detectionHistory = ev.window
       /\ ~ev.confirmed
       /\ scanHistory = ev.history

\* ------------------------------------------- the engine on a filled window
\* The detections a window may hold when a decode resolves: up to two, of
\* either code, made now or one tick ago, the older first.
EngineEntries ==
    { [code |-> c, format |-> "EAN_8", timestamp |-> t] :
          c \in {CodeEAN8, CodeQR}, t \in {0 - TickMs, 0} }
EngineWindows ==
    { <<>> } \cup { <<d>> : d \in EngineEntries }
    \cup { <<d, e>> : d \in {x \in EngineEntries : x.timestamp = 0 - TickMs},
                      e \in EngineEntries }

\* The scanner in the middle of a session, default settings: the decoder is
\* loaded, the stream is live, the loop of the session and the loop of an
\* earlier, stopped session each await a decode, and the window holds what
\* other loops put there since the session started.
InitEngine ==
    /\ now = 0
    /\ storage = [scannerSettings |-> AbsentSettingsBlob,
                  scanHistory |-> AbsentHistoryBlob]
    /\ storageWorks = TRUE
    /\ settings = ConstructSettings(AbsentSettingsBlob)
    /\ scanHistory = <<>>
    /\ isScanning = TRUE
    /\ stream = NewStream("environment", FALSE)
    /\ srcObject = TRUE
    /\ codeReader = TRUE
    /\ detectionHistory \in EngineWindows
    /\ lastDetectedCode = IF detectionHistory = <<>> THEN <<>>
                          ELSE <<detectionHistory[Len(detectionHistory)].code>>
    /\ detectionCount = 0
    /\ scanStartTime = 0 - TickMs
    /\ frameCount = 0
    /\ productInfo = NoCard
    /\ lookups = {}
    /\ loopPc = [g \in Sessions |-> IF g <= 2 THEN "decoding" ELSE "none"]
    /\ session = 2
    /\ scans = 0
    /\ cancelled = {1}
    /\ scanTimeout = 0
    /\ currentCamera = "environment"
    /\ flashEnabled = FALSE
    /\ cameraAvailable = TRUE
    /\ scanAgainPending = 0
    /\ manualModal = FALSE
    /\ resultsShown = FALSE
    /\ errorState = "hidden"
    /\ ev = Ev("other")

\* The decodes that resolve with a code.
EngineDecodeOutcomes == {o \in DecodeOutcomes : o.found /\ o.text # <<>>}

\* The confirmation engine: decodes resolve with either code while the clock
\* runs.
NextEngine ==
    \/ Tick
    \/ \E g \in Sessions, outcome \in EngineDecodeOutcomes :
           DecodeComplete(g, outcome)

SpecEngine == InitEngine /\ [][NextEngine]_vars

\* The detections of the code of the last call: the call's own and those of
\* the window before it that are less than detectionTimeout old, wherever
\* they stand in the window.
MatchesInTime ==
    1 + Cardinality({i \in DOMAIN ev.window :
                        /\ ev.window[i].code = ev.code
                        /\ now - ev.window[i].timestamp
                               < settings.detectionTimeout})

\* C25: with requireMultipleDetections on, handleDetection confirms exactly
\* when the detections of the observed code that are less than
\* detectionTimeout old, contiguous or not, number minDetections or more (so
\* X, Y, X inside the timeout confirm X on the third observation), and the
\* record it appends is of the observed code whatever else the window holds.
C25_MatchesNeedNotBeContiguous ==
    (ev.op = "handleDetection" /\ settings.requireMultipleDetections)
    => /\ ev.matches = MatchesInTime
       /\ ev.confirmed <=> MatchesInTime >= settings.minDetections
       /\ ev.confirmed
          => /\ Len(scanHistory) = Len(ev.history) + 1
             /\ scanHistory[1].code = ev.code
       /\ ~ev.confirmed => scanHistory = ev.history

\* X, Y, X: the window held the code and then another one, and the third
\* observation, of the first code again, confirmed it.
C25_Witness ==
    /\ ev.op = "handleDetection"
    /\ settings.requireMultipleDetections
    /\ settings.minDetections = 2
    /\ Len(ev.window) = 2
    /\ ev.window[1].code = CodeEAN8
    /\ ev.window[2].code = CodeQR
    /\ ev.code = CodeEAN8
    /\ MatchesInTime = 2
    /\ ev.confirmed
    /\ scanHistory # <<>>
    /\ scanHistory[1].code = CodeEAN8

\* ------------------------------------------------------ the loop, left alone
\* The decoder finds the same code in every frame.
SameCodeOutcome == [found |-> TRUE, text |-> CodeEAN8, format |-> <<"EAN_8">>]

\* A session the user starts and never stops: the camera, the decoder, the
\* start button, the frames and the decodes, which all find the code.
NextLoop ==
    \/ Tick
    \/ InitializeZXing
    \/ \E outcome \in {"ok", "denied", "timeout"} :
           RequestCameraPermission(outcome, FALSE)
    \/ StartScanning
    \/ \E g \in Sessions : FrameCallback(g)
    \/ \E g \in Sessions : DecodeComplete(g, SameCodeOutcome)

\* The browser runs every requestAnimationFrame callback and settles every
\* decode.
FairLoop ==
    /\ WF_vars(\E g \in Sessions : FrameCallback(g))
    /\ WF_vars(\E g \in Sessions : DecodeComplete(g, SameCodeOutcome))

SpecLoop == Init /\ [][NextLoop]_vars /\ FairLoop

\* A session is scanning with the default confirmation settings and its loop
\* awaits a decode.
ScanningForCode ==
    /\ isScanning
    /\ settings.requireMultipleDetections
    /\ settings.minDetections = DefaultMinDetections
    /\ loopPc[session] = "decoding"

\* C26: with requireMultipleDetections on and minDetections 2, a session
\* that is scanning while the decoder finds the same code in every frame
\* eventually confirms the code, the user neither stopping nor restarting:
\* an unconfirmed detection is followed by further loop iterations.
C26_SessionEventuallyConfirms ==
    ScanningForCode ~> (ev.op = "handleDetection" /\ ev.confirmed)

\* ----------------------------------------------------------- the history
\* A later visit: localStorage holds the settings of an earlier run with
\* requireMultipleDetections off and a history one short of its capacity or
\* at it.
EarlierSettings ==
    [DefaultSettings EXCEPT !.requireMultipleDetections = FALSE]

InitHistory ==
    \E n \in {HistoryCapacity - 1, HistoryCapacity} :
        Construct([scannerSettings |-> SettingsBlob(EarlierSettings),
                   scanHistory |-> HistoryBlob(EarlierHistory(n))])

\* The decodes the history's specification follows: no result, or a code.
HistoryDecodeOutcomes ==
    {o \in DecodeOutcomes : o.found => o.text = CodeEAN8}

\* The history: scans confirmed by the loop or entered by hand, the lookups
\* that back-fill them, and clearing.
NextHistory ==
    \/ InitializeZXing
    \/ RequestCameraPermission("ok", FALSE)
    \/ StartScanning
    \/ \E g \in Sessions, outcome \in HistoryDecodeOutcomes :
           DecodeComplete(g, outcome)
    \/ \E input \in ManualInputs, format \in ManualFormats :
           SubmitManualCode(input, format)
    \/ \E l \in lookups, outcome \in LookupOutcomes :
           LookupComplete(l, outcome)
    \/ ClearHistory
    \/ \E id \in HistoryCheckboxIds : UpdateSettings(id)

SpecHistory == InitHistory /\ [][NextHistory]_vars

\* ------------------------------------------------------ history properties

\* The last operation called processScan: a confirmed detection, or a manual
\* submission of a code that is not blank.
RecordAdded ==
    \/ ev.op = "handleDetection" /\ ev.confirmed
    \/ ev.op = "submitManualCode" /\ ev.code # <<>>

\* C5: the history never holds more than 50 records, and adding a record to
\* a history of 50 puts the new record at the head, drops the last record and
\* keeps the other 49 in their order.
C5_HistoryCapped ==
    /\ Len(scanHistory) <= HistoryCapacity
    /\ (RecordAdded /\ Len(ev.history) = HistoryCapacity)
       => /\ Len(scanHistory) = HistoryCapacity
          /\ scanHistory[1].code = ev.code
          /\ scanHistory[1].format = ev.format
          /\ \A i \in 1..(HistoryCapacity - 1) :
                 scanHistory[i + 1] = ev.history[i]

\* A record was added to a history of 50: it is the head, and the record
\* that was last is gone.
C5_Witness ==
    /\ RecordAdded
    /\ Len(ev.history) = HistoryCapacity
    /\ Len(scanHistory) = HistoryCapacity
    /\ scanHistory[1].code = ev.code
    /\ scanHistory[2] = ev.history[1]
    /\ \A i \in DOMAIN scanHistory : scanHistory[i] # ev.history[HistoryCapacity]

\* The text typed into the manual-entry field is empty or all whitespace.
BlankInput == \A i \in DOMAIN ev.input : ev.input[i] \in Whitespace

\* C6: submitManualCode with an empty or blank code creates no record: the
\* history and its stored text are unchanged, no lookup is issued and the
\* scanning flag is unchanged.
C6_BlankCodeRejected ==
    (ev.op = "submitManualCode" /\ BlankInput)
    => /\ scanHistory = ev.history
       /\ storage.scanHistory = ev.stored
       /\ lookups = ev.lookups
       /\ isScanning = ev.scanning

\* A code of whitespace only was submitted while scanning, and was rejected.
C6_Witness ==
    /\ ev.op = "submitManualCode"
    /\ ev.input # <<>>
    /\ BlankInput
    /\ ev.scanning
    /\ ev.history # <<>>
    /\ scanHistory = ev.history
    /\ storage.scanHistory = ev.stored
    /\ lookups = ev.lookups
    /\ isScanning

\* C7: submitManualCode with a code that is not blank adds exactly one
\* record: the head has the trimmed code, the given format, a timestamp and
\* product null, and every earlier record is one position later, up to the
\* capacity.
C7_ManualCodeAdded ==
    (ev.op = "submitManualCode" /\ ~BlankInput)
    => /\ Len(scanHistory) =
              (IF Len(ev.history) < HistoryCapacity
               THEN Len(ev.history) + 1 ELSE HistoryCapacity)
       /\ scanHistory[1].code = Trim(ev.input)
       /\ scanHistory[1].format = ev.format
       /\ scanHistory[1].timestamp = ToISOString(now)
       /\ scanHistory[1].product = <<>>
       /\ \A i \in 2..Len(scanHistory) : scanHistory[i] = ev.history[i - 1]

\* C8: when the lookup for a scan finds nothing or fails, the fallback card
\* with its search links is shown and the product of the head record for
\* that scan remains null.
C8_FallbackLeavesProductNull ==
    ( /\ ev.op = "searchProduct"
      /\ ~ev.found
      /\ scanHistory # <<>>
      /\ scanHistory[1].code = ev.code )
    => /\ productInfo = ProductCard(CreateFallbackResult(ev.code))
       /\ scanHistory[1].product = <<>>

\* C11: a lookup response back-fills the product only of the head of the
\* history, and only if the head still is the record of the code the lookup
\* was issued for: a response for a code that is no longer the head's
\* changes no record.
C11_OnlyMatchingHeadBackfilled ==
    ev.op = "searchProduct"
    => /\ Len(scanHistory) = Len(ev.history)
       /\ \A i \in DOMAIN scanHistory :
              (i # 1 \/ scanHistory[1].code # ev.code)
              => scanHistory[i] = ev.history[i]

\* C17: submitManualCode with a code that is not blank, from any state and
\* from Scanning too, has the effect of a confirmed detection of that code:
\* scanning is stopped, one record is added at the head, and a lookup for the
\* code is made (searchProduct runs) exactly when autoSearch is on.
C17_ManualCodeAsConfirmed ==
    (ev.op = "submitManualCode" /\ ~BlankInput)
    => /\ ~isScanning
       /\ resultsShown
       /\ scanHistory # <<>>
       /\ scanHistory[1].code = Trim(ev.input)
       /\ scanHistory[1].format = ev.format
       /\ settings.autoSearch
          => (lookups # ev.lookups \/ productInfo # LoadingCard)
       /\ ~settings.autoSearch
          => (lookups = ev.lookups /\ productInfo = LoadingCard)

\* searchProduct ran for the record just added: a lookup was issued, or the
\* fallback card was shown at once.
SearchedByCall == lookups # ev.lookups \/ productInfo # LoadingCard

\* The head of the history, before the response, was the record of a scan
\* made with autoSearch off: its product is null and no lookup of its own is
\* pending.
HeadScannedWithoutSearch ==
    /\ scans > 0
    /\ ev.history # <<>>
    /\ ev.history[1].product = <<>>
    /\ \A l \in ev.lookups : l.id # scans

\* C22: a confirmed scan triggers a product lookup exactly when autoSearch
\* is on at the confirmation; with autoSearch off no lookup is issued for the
\* scan, and the product of its record is not back-filled by a lookup.
C22_LookupIffAutoSearch ==
    /\ RecordAdded
       => /\ settings.autoSearch <=> SearchedByCall
          /\ ~settings.autoSearch
             => lookups = ev.lookups /\ scanHistory[1].product = <<>>
    /\ (ev.op = "searchProduct" /\ HeadScannedWithoutSearch)
       => scanHistory[1].product = <<>>

\* ------------------------------------------------------------ persistence
\* The codes the persistence specification enters by hand.
PersistenceInputs == {CodeEAN8, <<" ">> \o CodeQR \o <<" ">>}

\* The history and its stored text: records added by hand, back-filled by
\* lookups and cleared, with a localStorage that may stop accepting writes.
NextPersistence ==
    \/ StorageBreaks
    \/ \E input \in PersistenceInputs, format \in ManualFormats :
           SubmitManualCode(input, format)
    \/ \E l \in lookups, outcome \in LookupOutcomes :
           LookupComplete(l, outcome)
    \/ ClearHistory
    \/ \E id \in HistoryCheckboxIds : UpdateSettings(id)

SpecPersistence == Init /\ [][NextPersistence]_vars

\* The last operation changed the history.
HistoryMutated ==
    \/ RecordAdded
    \/ ev.op = "clearHistory"
    \/ ev.op = "searchProduct" /\ ev.history # <<>>

\* The last operation's change of the history is in memory.
MutationInMemory ==
    /\ RecordAdded
       => /\ Len(scanHistory) = Len(ev.history) + 1
          /\ scanHistory[1].code = ev.code
          /\ \A i \in DOMAIN ev.history : scanHistory[i + 1] = ev.history[i]
    /\ ev.op = "clearHistory" => scanHistory = <<>>
    /\ (ev.op = "searchProduct" /\ ev.history # <<>>)
       => /\ Len(scanHistory) = Len(ev.history)
          /\ scanHistory[1].product # <<>>

\* C23: after each add, back-fill and clear the change is in memory; with a
\* localStorage that accepts writes the stored history text is the text of
\* the history in memory and parses back to it, and with one that throws the
\* stored text is what it was before the operation.
C23_HistoryPersisted ==
    HistoryMutated
    => /\ MutationInMemory
       /\ IF storageWorks
          THEN /\ storage.scanHistory = HistoryBlob(scanHistory)
               /\ LoadHistory(storage.scanHistory) = <<scanHistory>>
          ELSE storage.scanHistory = ev.stored

\* A lookup back-filled the head and the new history was stored.
C23_Witness ==
    /\ ev.op = "searchProduct"
    /\ ev.found
    /\ storageWorks
    /\ scanHistory # <<>>
    /\ scanHistory[1].product = <<(<<"Milk">>)>>
    /\ ev.stored # storage.scanHistory
    /\ LoadHistory(storage.scanHistory) = <<scanHistory>>

\* A record was added while localStorage threw: it is in memory only.
C23_WitnessFailing ==
    /\ ev.op = "submitManualCode"
    /\ ~storageWorks
    /\ Len(scanHistory) = 2
    /\ storage.scanHistory = ev.stored
    /\ storage.scanHistory # HistoryBlob(scanHistory)

\* ---------------------------------------------------------------- startup
\* The settings object the variant's constructor falls back to: it has no
\* requireMultipleDetections, minDetections, detectionTimeout and no
\* DataMatrix format.
SimDefaultSettings ==
    [ audioFeedback |-> TRUE,
      autoSearch |-> TRUE,
      formats |-> [k \in FormatKeys \ {"DataMatrix"} |-> TRUE] ]

\* JSON.parse(this.getFromStorage(key)) of the variant returns: null for an
\* absent item, the value for JSON text; on any other text it throws.
SimParseReturns(blob) == blob.state # "corrupt"

\* JSON.parse(this.getFromStorage('scannerSettings')) || { ...defaults }
SimConstructSettings(blob) ==
    IF blob.state = "json" THEN JSONParseSettings(blob.doc)
                           ELSE SimDefaultSettings

\* The text of a localStorage item is replaced from outside the scanner
\* (site data cleared, or written by another page of the origin).
StoredTextReplaced(key, blob) ==
    /\ storage[key] # blob
    /\ storage' = [storage EXCEPT ![key] = blob]
    /\ ev' = Ev("other")
    /\ UNCHANGED << deviceVars, panelVars >>
    /\ UNCHANGED << now, settings, storageWorks, isScanning, stream, srcObject,
                    codeReader, detectionHistory, lastDetectedCode,
                    detectionCount, scanStartTime, frameCount, scanHistory,
                    productInfo, lookups, loopPc, session, scans, cancelled >>

\* The constructor of the variant, on what localStorage holds: the history,
\* then the settings; a JSON.parse that throws ends it there, and the fields
\* not yet assigned belong to no scanner.
SimConstructor ==
    LET historyRead == SimParseReturns(storage.scanHistory)
        settingsRead == historyRead /\ SimParseReturns(storage.scannerSettings)
    IN  /\ ev' = [Ev("constructor") EXCEPT !.format = "variant",
                                          !.stopped = ~settingsRead]
        /\ scanHistory' = IF historyRead
                          THEN ConstructHistory(storage.scanHistory)
                          ELSE scanHistory
        /\ settings' = IF settingsRead
                       THEN SimConstructSettings(storage.scannerSettings)
                       ELSE settings
        /\ isScanning' = FALSE
        /\ stream' = NullStream
        /\ currentCamera' = "environment"
        /\ flashEnabled' = FALSE
        /\ cameraAvailable' = FALSE
        /\ UNCHANGED << now, storage, storageWorks, srcObject, codeReader,
                        detectionHistory, lastDetectedCode, detectionCount,
                        scanStartTime, frameCount, productInfo, lookups,
                        loopPc, session, scans, cancelled, scanTimeout,
                        scanAgainPending, panelVars >>

\* What the settings item may hold, and the history item.
StartupSettingsBlobs ==
    {AbsentSettingsBlob, CorruptSettingsBlob, SettingsBlob(StoredSettings)}
StartupHistoryBlobs ==
    {AbsentHistoryBlob, CorruptHistoryBlob, HistoryBlob(EarlierHistory(1)),
     HistoryBlob(EarlierHistory(2))}

InitStartup ==
    \E blob \in StartupSettingsBlobs, hblob \in StartupHistoryBlobs :
        Construct([scannerSettings |-> blob, scanHistory |-> hblob])

\* Startup: the page is loaded, with either constructor, on any stored text.
NextStartup ==
    \/ Tick
    \/ Reload
    \/ SimConstructor
    \/ \E blob \in StartupSettingsBlobs :
           StoredTextReplaced("scannerSettings", blob)
    \/ \E blob \in StartupHistoryBlobs :
           StoredTextReplaced("scanHistory", blob)

SpecStartup == InitStartup /\ [][NextStartup]_vars

\* C24: a constructor that finds the settings item absent or unparsable
\* completes with the documented default settings (audioFeedback, autoSearch
\* and requireMultipleDetections true, minDetections 2, detectionTimeout
\* 2000, every format enabled), and one that finds the history item absent or
\* unparsable completes with an empty history.
C24_DefaultsAtStartup ==
    ev.op = "constructor"
    => /\ ~ev.stopped
       /\ storage.scannerSettings.state # "json"
          => settings = [ audioFeedback |-> TRUE,
                          autoSearch |-> TRUE,
                          requireMultipleDetections |-> TRUE,
                          minDetections |-> 2,
                          detectionTimeout |-> 2000,
                          formats |-> [k \in FormatKeys |-> TRUE] ]
       /\ storage.scanHistory.state # "json" => scanHistory = <<>>

\* ------------------------------------------------------ browsing the history
\* The rows of the history list that are clicked: the first three.
ViewedRows == 1..3

\* The productData showHistoryDetails hands to displayProductInfo.
HistoryProduct(name) ==
    [name |-> name, source |-> "History", searchLinks |-> <<>>]

\* showHistoryDetails(index), for the row index (the first row is 1): for a
\* record, showResults and, with a product, displayProductInfo.
ShowHistoryDetails(index) ==
    /\ ev' = [EvFrom("showHistoryDetails") EXCEPT !.gen = index]
    /\ IF index \in DOMAIN scanHistory
       THEN /\ resultsShown' = TRUE
            /\ IF scanHistory[index].product # <<>>
               THEN DisplayProductInfo(
                        HistoryProduct(scanHistory[index].product[1]))
               ELSE /\ productInfo' = LoadingCard
                    /\ UNCHANGED << scanHistory, storage >>
       ELSE UNCHANGED << resultsShown, productInfo, scanHistory, storage >>
    /\ UNCHANGED << deviceVars, manualModal, errorState >>
    /\ UNCHANGED << now, settings, storageWorks, isScanning, stream, srcObject,
                    codeReader, detectionHistory, lastDetectedCode,
                    detectionCount, scanStartTime, frameCount, lookups, loopPc,
                    session, scans, cancelled >>

\* The history list: records entered by hand, their lookups, and the rows
\* viewed.
NextBrowse ==
    \/ \E input \in PersistenceInputs, format \in ManualFormats :
           SubmitManualCode(input, format)
    \/ \E l \in lookups, outcome \in LookupOutcomes :
           LookupComplete(l, outcome)
    \/ \E id \in HistoryCheckboxIds : UpdateSettings(id)
    \/ \E index \in ViewedRows : ShowHistoryDetails(index)

SpecBrowse == Init /\ [][NextBrowse]_vars

\* C28: showHistoryDetails(index) changes, for every index, no record of the
\* history (the product of the head included) and not the stored history
\* text.
C28_ViewingIsReadOnly ==
    ev.op = "showHistoryDetails"
    => /\ scanHistory = ev.history
       /\ storage.scanHistory = ev.stored

\* ------------------------------------------- the simulated-decoder variant
\* src/unnamed/part_000: startScanning arms one timer that hands a sample
\* code to handleDetection; a pending timer g is loopPc[g] = "timer".

SampleCode == <<"0", "1", "2", "3", "4", "5", "6", "7", "8", "9", "0", "5">>

\* stopScanning without its clearTimeout: the pending timer stays armed.
ClearTimeoutSkipped(pc, id) == pc

\* if (this.scanTimeout) clearTimeout(this.scanTimeout)
ClearTimeout(pc, id) ==
    [g \in DOMAIN pc |-> IF g = id /\ pc[g] = "timer" THEN "none" ELSE pc[g]]

\* processScan of the variant: addToHistory, showResults and, with
\* autoSearch, searchProduct up to its await of searchGeneral.
SimProcessScan(code, format, scanning) ==
    LET scanData == [ code |-> code, format |-> format,
                      timestamp |-> ToISOString(now), product |-> <<>> ]
    IN  /\ scans' = scans + 1
        /\ scanHistory' = AddToHistory(scanHistory, scanData)
        /\ storage' = SaveHistory(storage, scanHistory')
        /\ productInfo' = LoadingCard
        /\ resultsShown' = TRUE
        /\ lookups' = IF settings.autoSearch
                      THEN lookups \cup {[id |-> scans + 1, code |-> code,
                                          scanning |-> scanning]}
                      ELSE lookups

\* startScanning() and startSimulatedScanning() of the variant.
SimStartScanning ==
    /\ ev' = [Ev("startScanning") EXCEPT !.scanning = isScanning,
                                         !.before = <<ScannerState>>]
    /\ IF StartReturnsEarly(isScanning)
       THEN UNCHANGED << isScanning, loopPc, session, scanTimeout >>
       ELSE /\ session < MaxSessions
            /\ isScanning' = TRUE
            /\ session' = session + 1
            /\ scanTimeout' = session + 1
            /\ loopPc' = [loopPc EXCEPT ![session + 1] = "timer"]
    /\ UNCHANGED << now, settings, storage, storageWorks, stream, srcObject,
                    codeReader, detectionHistory, lastDetectedCode,
                    detectionCount, scanStartTime, frameCount, scanHistory,
                    productInfo, lookups, scans, cancelled, currentCamera,
                    flashEnabled, cameraAvailable, scanAgainPending,
                    panelVars >>

\* The timers left armed by stopScanning() of the variant.
SimStopTimers ==
    IF isScanning /\ scanTimeout # 0
    THEN ClearTimeout(loopPc, scanTimeout)
    ELSE loopPc

\* stopScanning() of the variant.
SimStopScanning ==
    /\ ev' = [Ev("stopScanning") EXCEPT !.scanning = isScanning,
                                        !.before = <<ScannerState>>]
    /\ isScanning' = StopFlag(isScanning)
    /\ loopPc' = SimStopTimers
    /\ UNCHANGED << now, settings, storage, storageWorks, stream, srcObject,
                    codeReader, detectionHistory, lastDetectedCode,
                    detectionCount, scanStartTime, frameCount, scanHistory,
                    productInfo, lookups, session, scans, cancelled,
                    deviceVars, panelVars >>

\* The callback of timer g: with the flag set, handleDetection of the
\* variant (stopScanning, then processScan); otherwise nothing.
SimulatedDetection(g) ==
    /\ loopPc[g] = "timer"
    /\ ev' = [EvFrom("simulatedDetection") EXCEPT
                !.gen = g, !.code = SampleCode, !.format = "UPC-A",
                !.confirmed = isScanning, !.before = <<ScannerState>>]
    /\ IF isScanning
       THEN /\ scans < MaxScans
            /\ isScanning' = StopFlag(isScanning)
            /\ loopPc' = [SimStopTimers EXCEPT ![g] = "none"]
            /\ SimProcessScan(SampleCode, "UPC-A", StopFlag(isScanning))
       ELSE /\ loopPc' = [loopPc EXCEPT ![g] = "none"]
            /\ UNCHANGED << isScanning, scanHistory, storage, productInfo,
                            lookups, scans, resultsShown >>
    /\ UNCHANGED << now, settings, storageWorks, stream, srcObject,
                    codeReader, detectionHistory, lastDetectedCode,
                    detectionCount, scanStartTime, frameCount, session,
                    cancelled, deviceVars, manualModal, errorState >>

\* The variant's scanner: start, stop, the timers and the clock.
NextSimulated ==
    \/ Tick
    \/ SimStartScanning
    \/ SimStopScanning
    \/ \E g \in Sessions : SimulatedDetection(g)

SpecSimulated == Init /\ [][NextSimulated]_vars

\* The timers of startSimulatedScanning that are armed.
PendingTimers == {g \in Sessions : loopPc[g] = "timer"}

\* C16: in the simulated-decoder variant at most one detection timer is
\* armed at any time, it is the timer of the most recent startScanning and
\* it is armed only while scanning (stopScanning disarms it); so a detection
\* is handled only by the timer of the most recent startScanning, and only
\* with the scanning flag set.
C16_OneSimulatedTimer ==
    /\ Cardinality(PendingTimers) <= 1
    /\ \A g \in PendingTimers : isScanning /\ g = session /\ g = scanTimeout
    /\ ev.op = "simulatedDetection"
       => /\ ev.gen = ev.before[1].session
          /\ ev.confirmed
          /\ ev.before[1].isScanning
          /\ Len(scanHistory) = Len(ev.history) + 1

\* After start, stop and start again the second timer handed its detection
\* over, the first having been disarmed.
C16_Witness ==
    /\ ev.op = "simulatedDetection"
    /\ ev.gen = 2
    /\ session = 2
    /\ ev.confirmed
    /\ PendingTimers = {}
    /\ ~isScanning
    /\ scanHistory # <<>>
    /\ scanHistory[1].code = SampleCode

\* ---------------------------------------------------------------- the camera
\* initializeApp(), run once by the constructor's timer before any handler
\* is bound: cameraAvailable becomes true where getUserMedia exists.
InitializeApp(supported) ==
    /\ ev.op = "constructor"
    /\ cameraAvailable' = supported
    /\ errorState' = "hidden"
    /\ ev' = Ev("initializeApp")
    /\ UNCHANGED << scanTimeout, currentCamera, flashEnabled, scanAgainPending,
                    manualModal, resultsShown >>
    /\ UNCHANGED << now, settings, storage, storageWorks, isScanning, stream,
                    srcObject, codeReader, detectionHistory, lastDetectedCode,
                    detectionCount, scanStartTime, frameCount, scanHistory,
                    productInfo, lookups, loopPc, session, scans, cancelled >>

\* requestCameraPermission() where getUserMedia exists and resolves.
GrantCamera(capable) ==
    /\ cameraAvailable
    /\ RequestCameraPermission("ok", capable)

\* requestCameraPermission() where getUserMedia resolves and the video does
\* not load within 5 s.
StreamStartTimeout(capable) ==
    /\ cameraAvailable
    /\ RequestCameraPermission("timeout", capable)

\* switchCamera(): nothing without a stream; otherwise the facing mode is
\* toggled, the tracks are stopped and requestCameraPermission() runs.
SwitchCamera(outcome, capable) ==
    LET stopped == StopTracks(stream)
        switched == stream.state # "null"
        run == IF ev.op = "switchCamera" /\ ev.matches = 1 THEN 2 ELSE 1
    IN  /\ ev' = [Ev("switchCamera") EXCEPT
                    !.before = <<ScannerState>>,
                    !.confirmed = switched,
                    !.found = switched /\ outcome # "denied",
                    !.matches = IF switched /\ outcome # "denied"
                                THEN run ELSE 0,
                    !.format = IF run = 1 THEN currentCamera ELSE ev.format,
                    !.old = IF switched THEN <<stopped>> ELSE <<>>]
        /\ IF ~switched
           THEN UNCHANGED << stream, srcObject, currentCamera, errorState >>
           ELSE /\ currentCamera' = OtherCamera(currentCamera)
                /\ errorState' = AfterAttempt(outcome)
                /\ stream' = AfterPermission(stopped, outcome, currentCamera',
                                             capable)
                /\ srcObject' = (srcObject \/ outcome # "denied")
        /\ UNCHANGED << scanTimeout, flashEnabled, cameraAvailable,
                        scanAgainPending, manualModal, resultsShown >>
        /\ UNCHANGED << now, settings, storage, storageWorks, isScanning,
                        codeReader, detectionHistory, lastDetectedCode,
                        detectionCount, scanStartTime, frameCount, scanHistory,
                        productInfo, lookups, loopPc, session, scans,
                        cancelled >>

\* toggleFlash(): nothing without a stream or without a torch; otherwise the
\* flag is flipped and its new value handed to the track, which the device
\* accepts or rejects (caught).
ToggleFlash(accepts) ==
    /\ ev' = [Ev("toggleFlash") EXCEPT !.before = <<ScannerState>>,
                                      !.found = accepts]
    /\ IF stream.state = "null" \/ ~stream.torchCapable
       THEN UNCHANGED << flashEnabled, stream >>
       ELSE /\ flashEnabled' = FlipFlash(flashEnabled)
            /\ stream' = ApplyTorch(stream, flashEnabled', accepts)
    /\ UNCHANGED << scanTimeout, currentCamera, cameraAvailable,
                    scanAgainPending, panelVars >>
    /\ UNCHANGED << now, settings, storage, storageWorks, isScanning,
                    srcObject, codeReader, detectionHistory, lastDetectedCode,
                    detectionCount, scanStartTime, frameCount, scanHistory,
                    productInfo, lookups, loopPc, session, scans, cancelled >>

\* scanAgain(), the button of the results panel: hideResults() and a timer.
ScanAgain ==
    /\ resultsShown
    /\ resultsShown' = FALSE
    /\ scanAgainPending' = scanAgainPending + 1
    /\ ev' = [Ev("scanAgain") EXCEPT !.before = <<ScannerState>>]
    /\ UNCHANGED << scanTimeout, currentCamera, flashEnabled, cameraAvailable,
                    manualModal, errorState >>
    /\ UNCHANGED << now, settings, storage, storageWorks, isScanning, stream,
                    srcObject, codeReader, detectionHistory, lastDetectedCode,
                    detectionCount, scanStartTime, frameCount, scanHistory,
                    productInfo, lookups, loopPc, session, scans, cancelled >>

\* The timer of scanAgain(): startScanning() with a camera and a stream
\* object, showManualModal() otherwise.
ScanAgainTimer ==
    /\ scanAgainPending > 0
    /\ scanAgainPending' = scanAgainPending - 1
    /\ ev' = [Ev("scanAgainTimer") EXCEPT !.before = <<ScannerState>>]
    /\ IF cameraAvailable /\ stream.state # "null"
       THEN /\ StartScanningSteps
            /\ UNCHANGED manualModal
       ELSE /\ manualModal' = TRUE
            /\ UNCHANGED << now, settings, storage, storageWorks, isScanning,
                            stream, srcObject, codeReader, detectionHistory,
                            lastDetectedCode, detectionCount, scanStartTime,
                            frameCount, scanHistory, productInfo, lookups,
                            loopPc, session, scans, cancelled, errorState >>
    /\ UNCHANGED << scanTimeout, currentCamera, flashEnabled, cameraAvailable,
                    resultsShown >>

\* The camera: permission, switching and the torch.
NextCamera ==
    \/ \E supported \in BOOLEAN : InitializeApp(supported)
    \/ \E capable \in BOOLEAN : GrantCamera(capable)
    \/ \E capable \in BOOLEAN : StreamStartTimeout(capable)
    \/ RequestCameraPermission("denied", FALSE)
    \/ \E outcome \in {"ok", "denied"}, capable \in BOOLEAN :
           SwitchCamera(outcome, capable)
    \/ \E accepts \in BOOLEAN : ToggleFlash(accepts)

SpecCamera == Init /\ [][NextCamera]_vars

\* The decode the specification of scanning again follows: a code.
ScanAgainDecodeOutcomes == {o \in DecodeOutcomes : o.text = CodeEAN8}

\* Scanning again after a scan confirmed by the loop or entered by hand, with
\* the camera granted, switched or missing.
NextScanAgain ==
    \/ \E supported \in BOOLEAN : InitializeApp(supported)
    \/ InitializeZXing
    \/ GrantCamera(FALSE)
    \/ \E outcome \in {"ok", "denied"} : SwitchCamera(outcome, FALSE)
    \/ StartScanning
    \/ StopScanning
    \/ \E g \in Sessions, outcome \in ScanAgainDecodeOutcomes :
           DecodeComplete(g, outcome)
    \/ SubmitManualCode(CodeEAN8, "QR Code")
    \/ ScanAgain
    \/ ScanAgainTimer

SpecScanAgain == Init /\ [][NextScanAgain]_vars

\* C18: the timer of scanAgain() restarts scanning, with an empty detection
\* window, if and only if the camera is available and its stream is live;
\* otherwise it opens the manual-entry modal and the scanning flag stays
\* false.
C18_ScanAgainNeedsLiveStream ==
    ev.op = "scanAgainTimer"
    => IF ev.before[1].cameraAvailable /\ ev.before[1].stream.state = "live"
       THEN /\ isScanning
            /\ detectionHistory = <<>>
            /\ manualModal = ev.before[1].manualModal
       ELSE /\ manualModal
            /\ ~isScanning

\* C19: switchCamera() without a stream changes nothing; with one it toggles
\* the facing mode, stops the track of that stream and runs
\* requestCameraPermission() with the new facing mode, so that the new stream
\* faces the new way; after two successful calls in a row the facing mode is
\* the one before the first.
C19_SwitchCameraToggles ==
    ev.op = "switchCamera"
    => IF ev.before[1].stream.state = "null"
       THEN ScannerState = ev.before[1]
       ELSE /\ currentCamera \in {"environment", "user"}
            /\ currentCamera # ev.before[1].currentCamera
            /\ ev.old # <<>>
            /\ ev.old[1].state = "ended"
            /\ ev.old[1].facing = ev.before[1].stream.facing
            /\ ev.found => stream.state = "live" /\ stream.facing = currentCamera
            /\ ~ev.found => stream = ev.old[1]
            /\ ev.matches = 2
               => currentCamera = ev.format /\ stream.facing = ev.format

\* Two successful calls of switchCamera() in a row, from the rear camera: the
\* stream faces the rear again and the stream it replaced is stopped.
C19_Witness ==
    /\ ev.op = "switchCamera"
    /\ ev.matches = 2
    /\ ev.format = "environment"
    /\ currentCamera = "environment"
    /\ stream.state = "live"
    /\ stream.facing = "environment"
    /\ ev.old[1].state = "ended"
    /\ ev.old[1].facing = "user"

\* C20: toggleFlash() leaves the flash flag and the stream as they are when
\* there is no stream or its track reports no torch; otherwise it flips the
\* flag and hands the new value to the track of the active stream.
C20_ToggleFlashEffect ==
    ev.op = "toggleFlash"
    => IF ev.before[1].stream.state = "null"
          \/ ~ev.before[1].stream.torchCapable
       THEN /\ flashEnabled = ev.before[1].flashEnabled
            /\ stream = ev.before[1].stream
       ELSE /\ flashEnabled = ~ev.before[1].flashEnabled
            /\ stream.requested = <<flashEnabled>>
            /\ stream.state = ev.before[1].stream.state
            /\ stream.facing = ev.before[1].stream.facing
            /\ (ev.found /\ stream.state = "live")
               => stream.torch = flashEnabled

\* The flash was turned on: the flag is set and the track of the live stream
\* was handed torch true.
C20_Witness ==
    /\ ev.op = "toggleFlash"
    /\ ev.before[1].stream.state = "live"
    /\ ev.before[1].stream.torchCapable
    /\ ~ev.before[1].flashEnabled
    /\ flashEnabled
    /\ stream.requested = <<TRUE>>
    /\ stream.torch

\* toggleFlash() on a stream without a torch: nothing changed.
C20_WitnessNoTorch ==
    /\ ev.op = "toggleFlash"
    /\ ev.before[1].stream.state = "live"
    /\ ~ev.before[1].stream.torchCapable
    /\ ~flashEnabled
    /\ stream = ev.before[1].stream

\* The camera streams: no error is shown and a live stream of the current
\* facing mode is attached to the video.
Streaming ==
    /\ errorState = "hidden"
    /\ stream.state = "live"
    /\ stream.facing = currentCamera
    /\ srcObject

\* C21: every attempt of requestCameraPermission() ends in Streaming when
\* the stream is acquired and the video loads, and otherwise (rejection or
\* denial, or the video not loading within 5 s) with the error panel shown
\* with its message and no second attempt made: a rejected attempt leaves
\* the stream as it was.  An attempt made from the error panel can end in
\* Streaming.
C21_AttemptStreamsOrFails ==
    ev.op = "requestCameraPermission"
    => /\ ev.format = "ok" => Streaming
       /\ ev.format # "ok" => errorState = "Camera access failed"
       /\ ev.format = "denied"
          => stream = ev.before[1].stream
             /\ srcObject = ev.before[1].srcObject
       /\ currentCamera = ev.before[1].currentCamera
       /\ isScanning = ev.before[1].isScanning

\* A retry from the error panel, after the video had not loaded in time,
\* ended in Streaming.
C21_Witness ==
    /\ ev.op = "requestCameraPermission"
    /\ ev.format = "ok"
    /\ ev.before[1].errorState = "Camera access failed"
    /\ Streaming

\* An attempt timed out: the error is shown.
C21_WitnessTimeout ==
    /\ ev.op = "requestCameraPermission"
    /\ ev.format = "timeout"
    /\ errorState = "Camera access failed"

\* C29: while the scanning flag is set, a live camera stream is attached to
\* the video; no operation leaves the scanner scanning without one.
C29_ScanningHasLiveStream ==
    isScanning => (srcObject /\ stream.state = "live")

\* C30: the flash flag equals the torch state of the stream in use: it is
\* set exactly when the torch of the live stream is on.
C30_FlashFlagIsTorchState ==
    flashEnabled = (stream.state = "live" /\ stream.torch)

\* ---------------------------------------------------------- the settings
\* Any of three visits: nothing stored, a text that does not parse, or the
\* settings of an earlier run that stored minDetections 3.
InitSettings ==
    \E blob \in {AbsentSettingsBlob, CorruptSettingsBlob,
                 SettingsBlob(StoredSettings)} :
        Construct([scannerSettings |-> blob, scanHistory |-> AbsentHistoryBlob])

\* The settings dialog, every checkbox, with reloads of the page.
NextSettings ==
    \/ \E id \in CheckboxIds : UpdateSettings(id)
    \/ StorageBreaks
    \/ Reload

SpecSettings == InitSettings /\ [][NextSettings]_vars

\* ----------------------------------------------------- settings properties

\* C10: the settings round-trip through localStorage: after updateSettings
\* has saved them, loading them as the constructor does gives the same
\* enabled formats and the same values of every other field, for every
\* combination of formats; and whenever localStorage stores and holds
\* settings that parse, they are the settings in memory.
C10_SettingsRoundTrip ==
    /\ (ev.op = "updateSettings" /\ storageWorks)
       => /\ storage.scannerSettings = SettingsBlob(settings)
          /\ LoadSettings(storage.scannerSettings) = <<settings>>
          /\ ConstructSettings(storage.scannerSettings).formats
                 = settings.formats
    /\ (storageWorks /\ storage.scannerSettings.state = "json")
       => ConstructSettings(storage.scannerSettings) = settings

\* Settings with some formats on, some off and a checkbox cleared were saved
\* and load back the same.
C10_Witness ==
    /\ ev.op = "updateSettings"
    /\ storageWorks
    /\ \E k \in FormatKeys : settings.formats[k]
    /\ \E k \in FormatKeys : ~settings.formats[k]
    /\ ~settings.audioFeedback
    /\ settings.minDetections = DefaultMinDetections
    /\ ConstructSettings(storage.scannerSettings) = settings
====
